---- MODULE Spec2Model ----
(***************************************************************************)
(* A model of src/todolist.py: a command-line to-do list kept in one       *)
(* SQLite table.  The state is the table `tasks`, the AUTOINCREMENT        *)
(* counter SQLite keeps in sqlite_sequence, the wall clock behind          *)
(* CURRENT_TIMESTAMP, the connections held open, the position of main()    *)
(* and what the last command printed.  Input lines are sequences of        *)
(* one-character strings, so that strip(), lower(), split(maxsplit=1) and  *)
(* int() are computed as Python computes them.                             *)
(*                                                                         *)
(* Spec is the program on a store that does not fail; FaultSpec lets       *)
(* sqlite3.connect and the statements fail; ScenarioSpec feeds the program *)
(* the end-to-end scenario of the specification on a new file.  In all of  *)
(* them the program may be started again on the file it left.              *)
(***************************************************************************)
EXTENDS Integers, Sequences, FiniteSets, TLC

VARIABLES
    pc,          \* where main() is: start, prompt, exited or crashed
    tableExists, \* whether the table tasks has been created
    tasks,       \* the rows of the table tasks
    seq,         \* the largest rowid ever issued, kept in sqlite_sequence
    now,         \* the wall clock, in seconds
    inputLeft,   \* the lines standard input still holds
    line,        \* the line input() returned last
    out,         \* what the last step printed, or the exception that ended it
    rows,        \* the rows the last view command listed, first row first
    issued,      \* history: the ids add_task has printed
    deleted,     \* history: the ids delete_task has reported deleted
    before,      \* history: the rows of tasks when the last line was read
    handles,     \* the connections this process holds open
    opened,      \* history: the connections the last step opened
    faulty,      \* whether the store may fail: the environment, never changed
    script       \* the lines the user types first, in order; then any lines

vars == <<pc, tableExists, tasks, seq, now, inputLeft, line, out, rows,
          issued, deleted, before, handles, opened, faulty, script>>

----------------------------------------------------------------------------
(* Bounds of the model *)

\* highest id the model lets the store issue (adds are disabled beyond it)
MaxId == 2
\* last second of the wall clock the model lets the session reach
MaxTime == 1
\* number of lines the input stream holds before end-of-input
MaxInput == 4

----------------------------------------------------------------------------
(* Characters and Python's str methods *)

UpperLetters == <<"A","B","C","D","E","F","G","H","I","J","K","L","M",
                  "N","O","P","Q","R","S","T","U","V","W","X","Y","Z">>
LowerLetters == <<"a","b","c","d","e","f","g","h","i","j","k","l","m",
                  "n","o","p","q","r","s","t","u","v","w","x","y","z">>
DigitChars == <<"0","1","2","3","4","5","6","7","8","9">>

IsSpace(c) == c = " "
IsDigit(c) == \E i \in 1..10 : DigitChars[i] = c

\* str.lower() on one character
LowerChar(c) ==
    IF \E i \in 1..26 : UpperLetters[i] = c
    THEN LowerLetters[CHOOSE i \in 1..26 : UpperLetters[i] = c]
    ELSE c

\* a line that keeps its case
lowerKept(s) == s

\* str.lower()
lower(s) == [i \in 1..Len(s) |-> LowerChar(s[i])]

RECURSIVE lstrip(_)
lstrip(s) == IF s # <<>> /\ IsSpace(Head(s)) THEN lstrip(Tail(s)) ELSE s

RECURSIVE rstrip(_)
rstrip(s) ==
    IF s # <<>> /\ IsSpace(s[Len(s)])
    THEN rstrip(SubSeq(s, 1, Len(s) - 1))
    ELSE s

\* str.strip()
strip(s) == rstrip(lstrip(s))

\* length of the longest prefix of s without whitespace
RECURSIVE TokenLen(_)
TokenLen(s) ==
    IF s = <<>> \/ IsSpace(Head(s)) THEN 0 ELSE 1 + TokenLen(Tail(s))

\* a split that always yields the token and the remainder, as
\* str.partition does, an empty remainder included
split1Partition(s) ==
    LET a == lstrip(s)
        n == TokenLen(a)
    IN  <<SubSeq(a, 1, n), lstrip(SubSeq(a, n + 1, Len(a)))>>

\* str.split(maxsplit=1): split on runs of whitespace, at most one split;
\* leading whitespace is dropped, the remainder keeps its trailing whitespace
split1(s) ==
    LET a == lstrip(s)
        n == TokenLen(a)
        rest == lstrip(SubSeq(a, n + 1, Len(a)))
    IN  IF a = <<>> THEN <<>>
        ELSE IF rest = <<>> THEN <<SubSeq(a, 1, n)>>
        ELSE <<SubSeq(a, 1, n), rest>>

\* user_input.split(maxsplit=1) of input(...).strip().lower()
Parts(l) == split1(lower(strip(l)))

\* a command that defaults to view on a blank line
CommandDefaultView(parts) ==
    IF parts # <<>> THEN parts[1]
    ELSE <<"v","i","e","w">>

\* command = parts[0] if parts else ""
Command(parts) == IF parts # <<>> THEN parts[1] ELSE <<>>

----------------------------------------------------------------------------
(* Python's int(str) and the 64-bit INTEGER of SQLite *)

DigitVal(c) == (CHOOSE i \in 1..10 : DigitChars[i] = c) - 1

RECURSIVE StripZeros(_)
StripZeros(d) ==
    IF d # <<>> /\ Head(d) = "0" THEN StripZeros(Tail(d)) ELSE d

RECURSIVE DropUnderscores(_)
DropUnderscores(s) ==
    IF s = <<>> THEN <<>>
    ELSE IF Head(s) = "_" THEN DropUnderscores(Tail(s))
    ELSE <<Head(s)>> \o DropUnderscores(Tail(s))

\* the text int() accepts after the sign: digits, single underscores between
IsIntBody(b) ==
    /\ b # <<>>
    /\ IsDigit(b[1]) /\ IsDigit(b[Len(b)])
    /\ \A i \in 1..Len(b) : IsDigit(b[i]) \/ b[i] = "_"
    /\ \A i \in 1..(Len(b) - 1) : ~(b[i] = "_" /\ b[i + 1] = "_")

\* int(float(s)): the digits before a decimal point count as the integer
ParseIntFloat(s) ==
    LET t == strip(s)
        signed == t # <<>> /\ (Head(t) = "+" \/ Head(t) = "-")
        body == IF signed THEN Tail(t) ELSE t
        cut == IF \E i \in 1..Len(body) : body[i] = "."
               THEN (CHOOSE i \in 1..Len(body) :
                        body[i] = "." /\ \A j \in 1..(i - 1) : body[j] # ".") - 1
               ELSE Len(body)
        whole == SubSeq(body, 1, cut)
        d == StripZeros(DropUnderscores(whole))
    IN  IF IsIntBody(whole)
        THEN [ok |-> TRUE, neg |-> (signed /\ Head(t) = "-" /\ d # <<>>),
              digits |-> d]
        ELSE [ok |-> FALSE, neg |-> FALSE, digits |-> <<>>]

\* int(s): ok = FALSE stands for ValueError; otherwise the value as sign and
\* decimal digits without leading zeros (zero is the empty digit string)
ParseInt(s) ==
    LET t == strip(s)
        signed == t # <<>> /\ (Head(t) = "+" \/ Head(t) = "-")
        body == IF signed THEN Tail(t) ELSE t
        d == StripZeros(DropUnderscores(body))
    IN  IF IsIntBody(body)
        THEN [ok |-> TRUE, neg |-> (signed /\ Head(t) = "-" /\ d # <<>>),
              digits |-> d]
        ELSE [ok |-> FALSE, neg |-> FALSE, digits |-> <<>>]

\* decimal digits of a natural number, as str(n) writes them (0 is empty)
RECURSIVE Digits(_)
Digits(n) ==
    IF n = 0 THEN <<>> ELSE Digits(n \div 10) \o <<DigitChars[(n % 10) + 1]>>

\* a <= b for digit strings of equal length
RECURSIVE LexLeq(_, _)
LexLeq(a, b) ==
    IF a = <<>> THEN TRUE
    ELSE IF DigitVal(Head(a)) < DigitVal(Head(b)) THEN TRUE
    ELSE IF DigitVal(Head(a)) > DigitVal(Head(b)) THEN FALSE
    ELSE LexLeq(Tail(a), Tail(b))

\* 2^63 - 1 and 2^63, the bounds of SQLite's INTEGER
Int64MaxDigits ==
    <<"9","2","2","3","3","7","2","0","3","6","8","5","4","7","7","5","8","0","7">>
Int64MinDigits ==
    <<"9","2","2","3","3","7","2","0","3","6","8","5","4","7","7","5","8","0","8">>

\* whether sqlite3 can bind the Python int as an INTEGER parameter;
\* otherwise cursor.execute raises OverflowError
FitsInt64(n) ==
    LET lim == IF n.neg THEN Int64MinDigits ELSE Int64MaxDigits
    IN  \/ Len(n.digits) < Len(lim)
        \/ Len(n.digits) = Len(lim) /\ LexLeq(n.digits, lim)

\* the Python int n equals the row id i
IntEq(n, i) == ~n.neg /\ n.digits = Digits(i)

----------------------------------------------------------------------------
(* The strings of the program *)

sAdd == <<"a","d","d">>
sView == <<"v","i","e","w">>
sComplete == <<"c","o","m","p","l","e","t","e">>
sPending == <<"p","e","n","d","i","n","g">>
sDelete == <<"d","e","l","e","t","e">>
sExit == <<"e","x","i","t">>
sCompleted == <<"c","o","m","p","l","e","t","e","d">>

\* status_filter=None; view_tasks only tests its truth value, and the
\* empty string is the one str that is false as None is
None == <<>>

\* status TEXT NOT NULL DEFAULT 'pending'
DefaultStatus == sPending

\* the two values update_task_status accepts
Statuses == {sPending, sCompleted}

----------------------------------------------------------------------------
(* The lines the user types *)

Sp == <<" ">>

\* str(n)
Str(n) == IF n = 0 THEN <<"0">> ELSE Digits(n)

AddLines ==
    { sAdd,
      sAdd \o Sp,
      sAdd \o Sp \o <<"B","u","y"," ","m","i","l","k">>,
      <<"A","D","D">> \o Sp \o <<"x">>,
      Sp \o sAdd \o Sp \o Sp \o <<"x">> \o Sp }

ViewLines ==
    { sView,
      sView \o Sp \o sPending,
      sView \o Sp \o sCompleted,
      <<"V","i","e","w">> \o Sp \o <<"C","o","m","p","l","e","t","e","d">>,
      sView \o Sp \o <<"f","o","o">>,
      sView \o Sp \o sPending \o Sp \o <<"x">> }

IdArgs == { Sp \o Str(i) : i \in 1..(MaxId + 1) }

IdLines ==
    { c \o a : c \in {sComplete, sPending, sDelete}, a \in IdArgs \cup {<<>>} }
    \cup
    { sComplete \o Sp \o <<"0">>,
      sComplete \o Sp \o <<"x">>,
      sPending \o Sp \o <<"+","1">>,
      sDelete \o Sp \o <<"-","1">>,
      sPending \o Sp \o Int64MaxDigits,
      sPending \o Sp \o Int64MinDigits,
      <<"D","e","l","e","t","e">> \o Sp \o <<"0","1">>,
      <<"C","O","M","P","L","E","T","E">> \o Sp \o <<"1"," ","2">>,
      sPending \o Sp \o <<"1",".","5">>,
      sDelete \o Sp \o <<"-">> \o Int64MinDigits,
      sDelete \o Sp \o Int64MinDigits }

ExitLines == { sExit, <<"E","X","I","T">>, sExit \o Sp \o <<"x">> }

BlankLines == { <<>>, Sp \o Sp }

UnknownLines == { <<"f","o","o">>, sExit \o <<"s">>, <<"1">> }

Lines == AddLines \cup ViewLines \cup IdLines \cup ExitLines
         \cup BlankLines \cup UnknownLines

\* the lines by the command main() finds in them
LinesOf(commands) == { l \in Lines : Command(Parts(l)) \in commands }
ExitCmdLines == LinesOf({sExit})
AddCmdLines == LinesOf({sAdd})
ViewCmdLines == LinesOf({sView})
StatusCmdLines == LinesOf({sComplete, sPending})
DeleteCmdLines == LinesOf({sDelete})
BlankCmdLines == LinesOf({<<>>})
Commands == {sExit, sAdd, sView, sComplete, sPending, sDelete, <<>>}
UnknownCmdLines == Lines \ LinesOf(Commands)

\* parts, for every line of the model
PartsOf == [l \in Lines |-> Parts(l)]

\* seconds that pass while input() waits for a line
Delays == {0, 1}

----------------------------------------------------------------------------
(* The table tasks and the statements run on it *)

SetMax(S) == IF S = {} THEN 0 ELSE CHOOSE m \in S : \A x \in S : x <= m

Ids(tbl) == { t.id : t \in tbl }

\* a rowid without AUTOINCREMENT: one more than the largest rowid now stored
NextRowidReused(tbl, sq) == SetMax(Ids(tbl)) + 1

\* a rowid counted from the number of rows now stored
NextRowidCounted(tbl, sq) == Cardinality(tbl) + 1

\* id INTEGER PRIMARY KEY AUTOINCREMENT: one more than the largest rowid the
\* table has ever held, which SQLite keeps in sqlite_sequence
NextRowid(tbl, sq) == SetMax(Ids(tbl) \cup {sq}) + 1

\* INSERT INTO tasks (description) VALUES (?), at second ts
InsertTask(tbl, sq, description, ts) ==
    tbl \cup { [id |-> NextRowid(tbl, sq), description |-> description,
                status |-> DefaultStatus, created_at |-> ts] }

\* SELECT id FROM tasks WHERE id = ?
SelectById(tbl, n) == { t \in tbl : IntEq(n, t.id) }

\* an UPDATE without its WHERE clause
UpdateStatusAll(tbl, new_status, n) ==
    { [t EXCEPT !.status = new_status] : t \in tbl }

\* an UPDATE that is never committed
UpdateStatusRolledBack(tbl, new_status, n) == tbl

\* UPDATE tasks SET status = ? WHERE id = ?
UpdateStatus(tbl, new_status, n) ==
    { IF IntEq(n, t.id) THEN [t EXCEPT !.status = new_status] ELSE t
      : t \in tbl }

\* a rowcount that counts only the rows whose status the UPDATE changed
UpdateRowcountChanged(tbl, new_status, n) ==
    Cardinality({ t \in SelectById(tbl, n) : t.status # new_status })

\* cursor.rowcount after the UPDATE: SQLite counts every row the WHERE
\* clause selects, whether or not the new value differs from the old one
UpdateRowcount(tbl, new_status, n) == Cardinality(SelectById(tbl, n))

\* a DELETE that is never committed
DeleteByIdRolledBack(tbl, n) == tbl

\* DELETE FROM tasks WHERE id = ?
DeleteById(tbl, n) == { t \in tbl : ~IntEq(n, t.id) }

\* cursor.rowcount after the DELETE
DeleteRowcount(tbl, n) == Cardinality(SelectById(tbl, n))

\* a WHERE clause that drops the filter
MatchesAll(t, status_filter) == TRUE

\* the WHERE clause view_tasks builds: none when status_filter is false
Matches(t, status_filter) ==
    IF status_filter # <<>> THEN t.status = status_filter ELSE TRUE

\* ORDER BY created_at DESC: rows of equal created_at come in any order
IsOrdered(r) ==
    \A i \in 1..Len(r) : \A j \in 1..Len(r) :
        i < j => r[i].created_at >= r[j].created_at

\* every list cursor.fetchall() may return for the query of view_tasks
ViewResults(tbl, status_filter) ==
    LET sel == { t \in tbl : Matches(t, status_filter) }
        n == Cardinality(sel)
    IN  { r \in [1..n -> sel] :
            /\ \A i \in 1..n : \A j \in 1..n : i # j => r[i] # r[j]
            /\ IsOrdered(r) }

----------------------------------------------------------------------------
(* The repository functions: what each prints, raises and leaves stored *)

\* the storage failures one call can meet: none, sqlite3.connect failing in
\* get_db_connection, or a statement or commit failing
Faults == {"none", "connect", "statement"}

\* the outcome of the statements of a call, run on the connection it opened:
\* the exception that leaves the function, the message printed, the rows
\* stored and listed, cursor.lastrowid where it is printed, the connections
\* opened and those still open
Outcome(raised, msg, tbl) ==
    [raised |-> raised, msg |-> msg, tbl |-> tbl, rows |-> <<>>, id |-> 0,
     opened |-> 1, open |-> 1]

\* finally: connection.close()
Finally(o) == [o EXCEPT !.open = 0]

\* a return before get_db_connection() is called
Unconnected(o) == [o EXCEPT !.opened = 0, !.open = 0]

\* get_db_connection() raises: sqlite3.connect is outside every try
ConnectFailed(tbl) == Unconnected(Outcome("sqlite3.Error", "", tbl))

\* except sqlite3.Error as e: print(f"Database error: {e}"); the statements
\* not committed are rolled back when the connection is closed
DbError(tbl) == Outcome("", "db_error", tbl)

\* add_task(description), at second ts
add_task(tbl, sq, description, ts, fault) ==
    IF fault = "connect" THEN ConnectFailed(tbl)
    ELSE Finally(IF fault = "statement" THEN DbError(tbl)
                 ELSE [Outcome("", "added",
                               InsertTask(tbl, sq, description, ts))
                       EXCEPT !.id = NextRowid(tbl, sq)])

\* view_tasks(status_filter): one outcome for every order the rows can
\* come in
view_tasks(tbl, status_filter, fault) ==
    IF fault = "connect" THEN {ConnectFailed(tbl)}
    ELSE IF fault = "statement" THEN {Finally(DbError(tbl))}
    ELSE { Finally([Outcome("", IF r # <<>> THEN "list"
                                ELSE IF status_filter # <<>>
                                THEN "no_tasks_with_status"
                                ELSE "no_tasks", tbl)
                    EXCEPT !.rows = r])
           : r \in ViewResults(tbl, status_filter) }

\* update_task_status(task_id, new_status)
update_task_status(tbl, n, new_status, fault) ==
    IF new_status \notin Statuses
    THEN Unconnected(Outcome("", "invalid_status", tbl))
    ELSE IF fault = "connect" THEN ConnectFailed(tbl)
    ELSE Finally(
        IF ~FitsInt64(n)
        THEN Outcome("OverflowError", "", tbl)
        ELSE IF fault = "statement" THEN DbError(tbl)
        ELSE IF SelectById(tbl, n) = {}
        THEN Outcome("", "not_found", tbl)
        ELSE IF UpdateRowcount(tbl, new_status, n) > 0
        THEN Outcome("", "marked", UpdateStatus(tbl, new_status, n))
        ELSE Outcome("", "already_or_not_found",
                     UpdateStatus(tbl, new_status, n)))

\* delete_task(task_id)
delete_task(tbl, n, fault) ==
    IF fault = "connect" THEN ConnectFailed(tbl)
    ELSE Finally(
        IF ~FitsInt64(n)
        THEN Outcome("OverflowError", "", tbl)
        ELSE IF fault = "statement" THEN DbError(tbl)
        ELSE IF SelectById(tbl, n) = {}
        THEN Outcome("", "not_found", tbl)
        ELSE IF DeleteRowcount(tbl, n) > 0
        THEN Outcome("", "deleted", DeleteById(tbl, n))
        ELSE Outcome("", "not_found_during_deletion", DeleteById(tbl, n)))

\* a schema statement that drops what the file holds
CreateTableAfresh(exists, tbl, sq) ==
    [exists |-> TRUE, tbl |-> {}, sq |-> 0]

\* CREATE TABLE IF NOT EXISTS tasks (...)
CreateTableIfNotExists(exists, tbl, sq) ==
    IF exists
    THEN [exists |-> TRUE, tbl |-> tbl, sq |-> sq]
    ELSE [exists |-> TRUE, tbl |-> {}, sq |-> 0]

\* initialize_database(): no try statement, so a failing statement leaves
\* the function with the connection open
initialize_database(exists, tbl, sq, fault) ==
    LET same == [exists |-> exists, tbl |-> tbl, sq |-> sq] IN
    IF fault = "connect"
    THEN [raised |-> "sqlite3.Error", db |-> same, opened |-> 0, open |-> 0]
    ELSE IF fault = "statement"
    THEN [raised |-> "sqlite3.Error", db |-> same, opened |-> 1, open |-> 1]
    ELSE [raised |-> "", db |-> CreateTableIfNotExists(exists, tbl, sq),
          opened |-> 1, open |-> 0]

\* a try statement without the except ValueError clause
CaughtInMainNoValueError(e) == e \in {"IndexError"}

\* the exceptions the try statement of main() handles
CaughtInMain(e) == e \in {"ValueError", "IndexError"}

\* a call that passes 'completed' for both commands
StatusForAlwaysCompleted(command) == sCompleted

\* the status main() passes for the commands complete and pending
StatusFor(command) == IF command = sComplete THEN sCompleted ELSE sPending

Msg(kind) == [kind |-> kind, id |-> 0]

----------------------------------------------------------------------------
(* The state machine *)

\* what holds of every first state: a new file, a new process
InitCommon ==
    /\ pc = "start"
    /\ tableExists = FALSE
    /\ tasks = {}
    /\ seq = 0
    /\ now = 0
    /\ line = <<>>
    /\ out = Msg("none")
    /\ rows = <<>>
    /\ issued = {}
    /\ deleted = {}
    /\ before = {}
    /\ handles = 0
    /\ opened = 0

\* the program on a store that does not fail, the user typing any lines
Init ==
    /\ InitCommon
    /\ inputLeft \in 0..MaxInput
    /\ faulty = FALSE
    /\ script = <<>>

\* the program on a store whose connections and statements may fail
InitFault ==
    /\ InitCommon
    /\ inputLeft \in 0..MaxInput
    /\ faulty = TRUE
    /\ script = <<>>

\* add Buy milk; complete 1; view completed; delete 1; view
Scenario ==
    << sAdd \o Sp \o <<"B","u","y"," ","m","i","l","k">>,
       sComplete \o Sp \o <<"1">>,
       sView \o Sp \o sCompleted,
       sDelete \o Sp \o <<"1">>,
       sView >>

\* the lines the user types after the scenario
ScenarioExtra == MaxInput - 3

\* the program on a store that does not fail, the user typing the scenario
\* first
InitScenario ==
    /\ InitCommon
    /\ inputLeft = Len(Scenario) + ScenarioExtra
    /\ faulty = FALSE
    /\ script = Scenario

\* the storage failures the step may meet
FaultsNow == IF faulty THEN Faults ELSE {"none"}

\* main() up to the prompt: initialize_database() and the banner, lines
\* 120-131; an exception of initialize_database() ends the process
InitializeDatabase ==
    \E fault \in FaultsNow :
        LET o == initialize_database(tableExists, tasks, seq, fault) IN
        /\ pc = "start"
        /\ tableExists' = o.db.exists
        /\ tasks' = o.db.tbl
        /\ seq' = o.db.sq
        /\ handles' = handles + o.open
        /\ opened' = o.opened
        /\ IF o.raised = ""
           THEN pc' = "prompt" /\ out' = Msg("welcome")
           ELSE pc' = "crashed" /\ out' = Msg(o.raised)
        /\ UNCHANGED <<now, inputLeft, line, rows, issued, deleted, before,
                       faulty, script>>

\* the program is started again on the same file, after the process has
\* ended and the system has closed what it left open
RunAgain ==
    /\ pc \in {"exited", "crashed"}
    /\ pc' = "start"
    /\ handles' = 0
    /\ opened' = 0
    /\ line' = <<>>
    /\ out' = Msg("none")
    /\ rows' = <<>>
    /\ before' = tasks
    /\ UNCHANGED <<tableExists, tasks, seq, now, inputLeft, issued, deleted,
                   faulty, script>>

\* input(...) returns the line l after dt seconds
Read(l, dt) ==
    /\ pc = "prompt"
    /\ inputLeft > 0
    /\ now + dt <= MaxTime
    /\ script # <<>> => l = Head(script)
    /\ script' = IF script # <<>> THEN Tail(script) ELSE script
    /\ line' = l
    /\ inputLeft' = inputLeft - 1
    /\ now' = now + dt
    /\ before' = tasks
    /\ UNCHANGED <<tableExists, faulty>>

\* input(...) at end-of-input raises EOFError, which nothing handles
EndOfInput ==
    /\ pc = "prompt"
    /\ inputLeft = 0
    /\ pc' = "crashed"
    /\ out' = Msg("EOFError")
    /\ rows' = <<>>
    /\ opened' = 0
    /\ UNCHANGED <<tableExists, tasks, seq, now, inputLeft, line, issued,
                   deleted, before, handles, faulty, script>>

\* a branch of main() that calls no repository function
NoCall == opened' = 0 /\ UNCHANGED <<tasks, seq, issued, deleted, handles>>

\* what main() does with the outcome o of a repository call made inside
\* or outside its try statement
Finish(o, inTry) ==
    /\ tasks' = o.tbl
    /\ rows' = o.rows
    /\ handles' = handles + o.open
    /\ opened' = o.opened
    /\ IF o.raised = ""
       THEN pc' = "prompt" /\ out' = [kind |-> o.msg, id |-> o.id]
       ELSE IF inTry /\ CaughtInMain(o.raised)
       THEN pc' = "prompt" /\ out' = Msg("id_not_number")
       ELSE pc' = "crashed" /\ out' = Msg(o.raised)

\* command == 'exit'
CmdExit ==
    \E l \in ExitCmdLines, dt \in Delays :
        /\ Read(l, dt)
        /\ Command(PartsOf[l]) = sExit
        /\ pc' = "exited"
        /\ out' = Msg("goodbye")
        /\ rows' = <<>>
        /\ NoCall

\* command == 'add'
CmdAdd ==
    \E l \in AddCmdLines, dt \in Delays, fault \in FaultsNow :
        LET parts == PartsOf[l] IN
        /\ Read(l, dt)
        /\ Command(parts) = sAdd
        /\ IF Len(parts) > 1
           THEN LET o == add_task(tasks, seq, parts[2], now', fault) IN
                /\ NextRowid(tasks, seq) <= MaxId
                /\ Finish(o, FALSE)
                /\ seq' = IF o.msg = "added" THEN o.id ELSE seq
                /\ issued' = IF o.msg = "added"
                             THEN issued \cup {o.id} ELSE issued
                /\ UNCHANGED deleted
           ELSE /\ pc' = "prompt"
                /\ out' = Msg("description_missing")
                /\ rows' = <<>>
                /\ NoCall

\* command == 'view'
CmdView ==
    \E l \in ViewCmdLines, dt \in Delays, fault \in FaultsNow :
        LET parts == PartsOf[l]
            filter_arg == IF Len(parts) > 1 THEN lower(parts[2]) ELSE None
        IN
        /\ Read(l, dt)
        /\ Command(parts) = sView
        /\ IF Len(parts) > 1 /\ filter_arg \notin {sPending, sCompleted}
           THEN /\ pc' = "prompt"
                /\ out' = Msg("filter_error")
                /\ rows' = <<>>
                /\ NoCall
           ELSE /\ \E o \in view_tasks(tasks, filter_arg, fault) :
                       Finish(o, FALSE)
                /\ UNCHANGED <<seq, issued, deleted>>

\* the exceptions of a call made in the try statement of main()
Dispatch(o) == Finish(o, TRUE)

\* the branch of complete, pending and delete: int(parts[1]), then the
\* repository call of the command
IdCommand(parts, tbl, fault) ==
    IF Len(parts) > 1
    THEN LET n == ParseInt(parts[2])
             command == Command(parts)
         IN  IF ~n.ok THEN Unconnected(Outcome("ValueError", "", tbl))
             ELSE IF command = sDelete THEN delete_task(tbl, n, fault)
             ELSE update_task_status(tbl, n, StatusFor(command), fault)
    ELSE Unconnected(Outcome("", "id_missing", tbl))

\* command in ['complete', 'pending']
CmdSetStatus ==
    \E l \in StatusCmdLines, dt \in Delays, fault \in FaultsNow :
        LET parts == PartsOf[l]
            o == IdCommand(parts, tasks, fault)
        IN
        /\ Read(l, dt)
        /\ Command(parts) \in {sComplete, sPending}
        /\ Dispatch(o)
        /\ UNCHANGED <<seq, issued, deleted>>

\* command == 'delete'
CmdDelete ==
    \E l \in DeleteCmdLines, dt \in Delays, fault \in FaultsNow :
        LET parts == PartsOf[l]
            o == IdCommand(parts, tasks, fault)
        IN
        /\ Read(l, dt)
        /\ Command(parts) = sDelete
        /\ Dispatch(o)
        /\ deleted' = IF o.msg = "deleted"
                      THEN deleted \cup Ids(SelectById(tasks, ParseInt(parts[2])))
                      ELSE deleted
        /\ UNCHANGED <<seq, issued>>

\* command == "": a blank line
CmdBlank ==
    \E l \in BlankCmdLines, dt \in Delays :
        /\ Read(l, dt)
        /\ Command(PartsOf[l]) = <<>>
        /\ pc' = "prompt"
        /\ out' = Msg("none")
        /\ rows' = <<>>
        /\ NoCall

\* any other command
CmdUnknown ==
    \E l \in UnknownCmdLines, dt \in Delays :
        /\ Read(l, dt)
        /\ Command(PartsOf[l]) \notin Commands
        /\ pc' = "prompt"
        /\ out' = Msg("unknown_command")
        /\ rows' = <<>>
        /\ NoCall

Next ==
    \/ InitializeDatabase
    \/ RunAgain
    \/ EndOfInput
    \/ CmdExit
    \/ CmdAdd
    \/ CmdView
    \/ CmdSetStatus
    \/ CmdDelete
    \/ CmdBlank
    \/ CmdUnknown

\* the program on a store that does not fail
Spec == Init /\ [][Next]_vars

\* the loop runs a step whenever it can: main() never waits for anything
\* but the next line
FairSpec == Spec /\ WF_vars(Next)

\* the program on a store that may fail
FaultSpec == InitFault /\ [][Next]_vars

\* the program fed the scenario on a new file
ScenarioSpec == InitScenario /\ [][Next]_vars

TypeOK ==
    /\ pc \in {"start", "prompt", "exited", "crashed"}
    /\ tableExists \in BOOLEAN
    /\ seq \in 0..MaxId
    /\ now \in 0..MaxTime
    /\ inputLeft \in 0..(MaxInput + Len(Scenario))
    /\ handles \in 0..1
    /\ opened \in 0..1
    /\ faulty \in BOOLEAN
    /\ \A t \in tasks : t.id \in 1..MaxId /\ t.created_at \in 0..MaxTime

----------------------------------------------------------------------------
(* Properties *)

\* the step reads a line of the command in cmds
Reads(cmds) ==
    /\ pc = "prompt"
    /\ inputLeft' = inputLeft - 1
    /\ Command(PartsOf[line']) \in cmds

\* the argument of the line read, the text after the command
HasArg == Len(PartsOf[line']) > 1
Arg == PartsOf[line'][2]

Range(r) == { r[i] : i \in 1..Len(r) }

\* C1: every add with a non-empty description prints a new id, which is the
\* id of no stored task, was never issued before in the session and is
\* greater than every id issued before, those of deleted tasks included.
C1_AddIssuesFreshGreaterId ==
    [][ (Reads({sAdd}) /\ HasArg) =>
            /\ out'.kind = "added"
            /\ out'.id \notin issued
            /\ out'.id \notin Ids(tasks)
            /\ \A i \in issued \cup deleted : out'.id > i
            /\ issued' = issued \cup {out'.id}
            /\ \E t \in tasks' : t.id = out'.id ]_vars

\* an add has been answered after the task of a smaller id was deleted
C1_Witness ==
    /\ out.kind = "added"
    /\ deleted # {}
    /\ \A i \in deleted : out.id > i
    /\ out.id \in Ids(tasks)

\* C2: the stored tasks have pairwise distinct ids, and the status of each
\* is 'pending' or 'completed'.
C2_UniqueIdsAndStatusDomain ==
    /\ \A t1 \in tasks : \A t2 \in tasks : t1.id = t2.id => t1 = t2
    /\ \A t \in tasks : t.status \in {sPending, sCompleted}

\* two tasks are stored, one of each status, after a status was set
C2_Witness ==
    /\ Cardinality(tasks) = 2
    /\ \E t \in tasks : t.status = sCompleted
    /\ \E t \in tasks : t.status = sPending
    /\ out.kind = "marked"

\* C3: a view without a filter lists exactly the tasks added and not
\* deleted, and lists a task added later before every task added earlier.
C3_ViewAllNewestFirst ==
    [][ (Reads({sView}) /\ ~HasArg) =>
            /\ { t.id : t \in Range(rows') } = issued \ deleted
            /\ Range(rows') = tasks
            /\ \A i \in 1..Len(rows') : \A j \in 1..Len(rows') :
                   i < j => rows'[i].id > rows'[j].id ]_vars

\* C4: view pending lists exactly the stored tasks of status pending, view
\* completed exactly the other stored tasks; the two lists share no task and
\* together hold the tasks of the view without a filter.
C4_FilteredViewsPartition ==
    [][ (Reads({sView}) /\ (HasArg => Arg \in {sPending, sCompleted})) =>
            LET pend == { t \in tasks : t.status = sPending } IN
            /\ out'.kind \in {"list", "no_tasks", "no_tasks_with_status"}
            /\ (HasArg /\ Arg = sPending) => Range(rows') = pend
            /\ (HasArg /\ Arg = sCompleted) => Range(rows') = tasks \ pend
            /\ ~HasArg => Range(rows') = tasks
            /\ Len(rows') = Cardinality(Range(rows'))
            /\ \A rp \in ViewResults(tasks, sPending) :
               \A rc \in ViewResults(tasks, sCompleted) :
               \A ra \in ViewResults(tasks, None) :
                   /\ Range(rp) \cap Range(rc) = {}
                   /\ Range(rp) \cup Range(rc) = Range(ra) ]_vars

\* view completed has listed a completed task while a pending one is stored
C4_Witness ==
    /\ Command(PartsOf[line]) = sView
    /\ Len(PartsOf[line]) > 1
    /\ out.kind = "list"
    /\ \A t \in Range(rows) : t.status = sCompleted
    /\ \E t \in tasks : t.status = sPending

\* int() of the argument, for every line of the model that has one
ArgIntOf ==
    [l \in Lines |-> IF Len(PartsOf[l]) > 1 THEN ParseInt(PartsOf[l][2])
                     ELSE [ok |-> FALSE, neg |-> FALSE, digits |-> <<>>]]

\* the id a complete, pending or delete line names
ArgInt == ArgIntOf[line']

\* C5: complete or pending on a stored task reports success and leaves the
\* task with the status asked for; when the task has that status already the
\* call reports success all the same and the store is as it was.
C5_ReassertStatusSucceeds ==
    [][ (/\ Reads({sComplete, sPending}) /\ HasArg /\ ArgInt.ok
         /\ SelectById(tasks, ArgInt) # {}) =>
            LET s == StatusFor(Command(PartsOf[line'])) IN
            /\ out'.kind = "marked"
            /\ pc' = "prompt"
            /\ \A t \in SelectById(tasks', ArgInt) : t.status = s
            /\ SelectById(tasks', ArgInt) # {}
            /\ (\A t \in SelectById(tasks, ArgInt) : t.status = s)
                   => tasks' = tasks ]_vars

\* a status has been set again on a task that had it, and reported success
C5_Witness ==
    /\ Command(PartsOf[line]) \in {sComplete, sPending}
    /\ out.kind = "marked"
    /\ before = tasks
    /\ \E t \in tasks : t.status = sCompleted

\* C6: complete or pending with an id that no stored task has reports that
\* the task was not found and leaves the store unchanged.
C6_UnknownIdNotFound ==
    [][ (/\ Reads({sComplete, sPending}) /\ HasArg /\ ArgInt.ok
         /\ SelectById(tasks, ArgInt) = {}) =>
            /\ out'.kind = "not_found"
            /\ pc' = "prompt"
            /\ tasks' = tasks ]_vars

\* C7: delete of a stored id reports success and removes that task; no view
\* lists a deleted id afterwards; delete of an id deleted before reports that
\* the task was not found and changes nothing.
C7_DeleteRemovesForGood ==
    [][ /\ (/\ Reads({sDelete}) /\ HasArg /\ ArgInt.ok
            /\ SelectById(tasks, ArgInt) # {}) =>
               /\ out'.kind = "deleted"
               /\ SelectById(tasks', ArgInt) = {}
               /\ tasks' = tasks \ SelectById(tasks, ArgInt)
        /\ (/\ Reads({sDelete}) /\ HasArg /\ ArgInt.ok
            /\ \E i \in deleted : IntEq(ArgInt, i)) =>
               /\ out'.kind = "not_found"
               /\ tasks' = tasks
        /\ Reads({sView}) =>
               \A t \in Range(rows') : t.id \notin deleted'
        /\ \A i \in deleted' : i \notin Ids(tasks') ]_vars

\* a second delete of the same id has been answered with not found
C7_Witness ==
    /\ Command(PartsOf[line]) = sDelete
    /\ out.kind = "not_found"
    /\ \E i \in deleted : IntEq(ParseInt(PartsOf[line][2]), i)

\* C8: add without a description prints an error and inserts nothing; add
\* with a description inserts exactly one task, whose status is pending and
\* whose description is not empty.
C8_AddValidatesAndInsertsPending ==
    [][ /\ (Reads({sAdd}) /\ ~HasArg) =>
               /\ out'.kind = "description_missing"
               /\ tasks' = tasks
        /\ (Reads({sAdd}) /\ HasArg) =>
               /\ tasks \subseteq tasks'
               /\ Cardinality(tasks' \ tasks) = 1
               /\ \A t \in tasks' \ tasks :
                      /\ t.status = sPending
                      /\ t.description # <<>>
                      /\ t.description = Arg
                      /\ t.id = out'.id
        /\ \A t \in tasks' : t.description # <<>> ]_vars

\* an add without a description has been refused while tasks are stored
C8_Witness ==
    /\ Command(PartsOf[line]) = sAdd
    /\ out.kind = "description_missing"
    /\ tasks # {}
    /\ tasks = before

\* C9: an unknown command, an add without a description, a complete, pending
\* or delete without an id or with text that is no integer, and a view with
\* a filter other than pending and completed each print their error message
\* and leave main() at the prompt.
C9_BadInputKeepsLooping ==
    [][ /\ (pc = "prompt" /\ inputLeft' = inputLeft - 1) =>
             LET c == Command(PartsOf[line']) IN
             /\ c \notin Commands =>
                    out'.kind = "unknown_command" /\ pc' = "prompt"
             /\ (c = sAdd /\ ~HasArg) =>
                    out'.kind = "description_missing" /\ pc' = "prompt"
             /\ (c \in {sComplete, sPending, sDelete} /\ ~HasArg) =>
                    out'.kind = "id_missing" /\ pc' = "prompt"
             /\ (c \in {sComplete, sPending, sDelete} /\ HasArg /\ ~ArgInt.ok) =>
                    out'.kind = "id_not_number" /\ pc' = "prompt"
             /\ (c = sView /\ HasArg /\ Arg \notin {sPending, sCompleted}) =>
                    out'.kind = "filter_error" /\ pc' = "prompt" ]_vars

\* text that is no integer has been refused as an id, and main() prompts
C9_Witness ==
    /\ Command(PartsOf[line]) \in {sComplete, sPending, sDelete}
    /\ Len(PartsOf[line]) > 1
    /\ ~ParseInt(PartsOf[line][2]).ok
    /\ out.kind = "id_not_number"
    /\ pc = "prompt"

\* C10: main() leaves the prompt when it reads exit or finds the input at
\* its end, and only then; once it has left, nothing changes any more.
C10_LeavesLoopOnlyOnExitOrEof ==
    [][ /\ Reads({sExit}) => pc' = "exited"
        /\ (pc = "prompt" /\ inputLeft = 0) => pc' = "crashed"
        /\ (pc = "prompt" /\ pc' # "prompt") =>
               (Reads({sExit}) \/ inputLeft = 0)
        /\ pc \in {"exited", "crashed"} => UNCHANGED vars ]_vars

\* C10: when standard input is finite, main() ends.
C10_EventuallyTerminates == <>(pc \in {"exited", "crashed"})

\* C11: every state lies between two operations, and every operation has
\* released the connection it opened, however it ended; so no connection is
\* open in any state, the prompt included.
C11_HandlesReleased == handles = 0

\* the command that sets the status to
ToggleCommand(to) == IF to = sCompleted THEN sComplete ELSE sPending

\* C12: for a stored task, complete and pending both succeed whatever
\* status the task has, and leave the task with the status of the command.
C12_TransitionsUnrestricted ==
    [][ (Reads({sComplete, sPending}) /\ HasArg /\ ArgInt.ok) =>
        \A from \in {sPending, sCompleted} : \A to \in {sPending, sCompleted} :
        \A t \in tasks :
            (/\ Command(PartsOf[line']) = ToggleCommand(to)
             /\ IntEq(ArgInt, t.id) /\ t.status = from) =>
                /\ out'.kind = "marked"
                /\ pc' = "prompt"
                /\ [t EXCEPT !.status = to] \in tasks' ]_vars

\* a completed task has been set back to pending
C12_Witness ==
    /\ Command(PartsOf[line]) = sPending
    /\ out.kind = "marked"
    /\ \E t \in before :
           /\ t.status = sCompleted
           /\ t \notin tasks
           /\ [t EXCEPT !.status = sPending] \in tasks

\* the step is a read whose call printed the message kind
Answered(kind) ==
    pc = "prompt" /\ inputLeft' = inputLeft - 1 /\ out'.kind = kind

\* C13: a stored task keeps its id, description and created_at as long as it
\* is stored; a successful status update changes the status of the task of
\* that id and nothing else; a successful delete removes the task of that
\* id and nothing else.
C13_FrameOfUpdateAndDelete ==
    [][ /\ \A t \in tasks : \A u \in tasks' :
               u.id = t.id =>
                   u.description = t.description /\ u.created_at = t.created_at
        /\ Answered("marked") =>
               /\ Ids(tasks') = Ids(tasks)
               /\ Cardinality(tasks') = Cardinality(tasks)
               /\ \A t \in tasks : ~IntEq(ArgInt, t.id) => t \in tasks'
               /\ seq' = seq
        /\ Answered("deleted") =>
               /\ tasks' \subseteq tasks
               /\ \A t \in tasks : ~IntEq(ArgInt, t.id) => t \in tasks'
               /\ Cardinality(tasks \ tasks') = 1
               /\ seq' = seq ]_vars

\* the status of one of two stored tasks has been changed, the other task
\* is as it was
C13_Witness ==
    /\ out.kind = "marked"
    /\ Cardinality(before) = 2
    /\ Cardinality(tasks \ before) = 1
    /\ Cardinality(tasks \cap before) = 1

\* C14: a storage failure met by a command of the loop is printed and the
\* loop goes on; a storage failure ends the process only at startup.
C14_StorageFailureRecovered ==
    [][ /\ (pc = "prompt" /\ out'.kind \in {"db_error", "sqlite3.Error"}
            /\ inputLeft' = inputLeft - 1) =>
               out'.kind = "db_error" /\ pc' = "prompt"
        /\ (pc' = "crashed" /\ out'.kind = "sqlite3.Error" /\ pc # "crashed") =>
               pc = "start" ]_vars

\* C15: a line that is empty or holds only whitespace prints nothing, opens
\* no connection, leaves the store as it was and brings the prompt back.
C15_BlankLineIgnored ==
    [][ (pc = "prompt" /\ inputLeft' = inputLeft - 1 /\ strip(line') = <<>>) =>
            /\ out'.kind = "none"
            /\ pc' = "prompt"
            /\ opened' = 0
            /\ handles' = handles
            /\ rows' = <<>>
            /\ tasks' = tasks
            /\ seq' = seq ]_vars

\* a line of blanks has been read while a task is stored
C15_Witness ==
    /\ line = Sp \o Sp
    /\ out.kind = "none"
    /\ pc = "prompt"
    /\ tasks # {}
    /\ tasks = before

\* C16: initialize_database() leaves every task of the file as it is, a
\* second run of it changes nothing more than the first, and the tasks stored
\* by one run of the program are listed by the next.
C16_SchemaInitKeepsData ==
    [][ (pc = "start" /\ pc' # "start") =>
            LET once == CreateTableIfNotExists(tableExists, tasks, seq)
                twice == CreateTableIfNotExists(once.exists, once.tbl, once.sq)
            IN  /\ pc' = "prompt"
                /\ tableExists'
                /\ tasks' = tasks
                /\ seq' = seq
                /\ twice = once
                /\ once.tbl = tasks'
                /\ \A r \in ViewResults(tasks', None) : Range(r) = tasks ]_vars

\* the program has been started again on a file that holds a task
C16_Witness ==
    /\ out.kind = "welcome"
    /\ pc = "prompt"
    /\ tasks # {}
    /\ issued # {}

\* the lines of the scenario not yet read
ScenarioLeft == inputLeft - ScenarioExtra

\* C17: on a new file, add Buy milk issues id 1 with status pending,
\* complete 1 succeeds and makes the status completed, view completed lists
\* task 1, delete 1 succeeds, and the last view lists no task 1.
C17_EndToEnd ==
    /\ ScenarioLeft = 4 =>
           /\ out = [kind |-> "added", id |-> 1]
           /\ Ids(tasks) = {1}
           /\ \A t \in tasks : t.status = sPending
    /\ ScenarioLeft = 3 =>
           /\ out.kind = "marked"
           /\ Ids(tasks) = {1}
           /\ \A t \in tasks : t.status = sCompleted
    /\ ScenarioLeft = 2 =>
           /\ out.kind = "list"
           /\ \E i \in 1..Len(rows) : rows[i].id = 1
    /\ ScenarioLeft = 1 =>
           /\ out.kind = "deleted"
           /\ 1 \notin Ids(tasks)
    /\ ScenarioLeft = 0 =>
           /\ out.kind \in {"list", "no_tasks"}
           /\ \A i \in 1..Len(rows) : rows[i].id # 1

\* the last line of the scenario has been answered
C17_Witness ==
    /\ ScenarioLeft = 0
    /\ script = <<>>
    /\ line = sView
    /\ out.kind = "no_tasks"
    /\ deleted = {1}

\* the arguments of the model that are no integer
NonIntegerArgs == { <<"x">>, <<"1",".","5">>, <<"1"," ","2">> }

\* the lines that ask to change the store
Mutating == {sAdd, sComplete, sPending, sDelete}

\* C18: a command the loop rejects and every view leave the store as it
\* was; the store changes only on add, complete, pending or delete with a
\* well-formed argument.
C18_OnlyWellFormedCommandsWrite ==
    [][ /\ (pc = "prompt" /\ inputLeft' = inputLeft - 1) =>
               LET c == Command(PartsOf[line'])
                   same == tasks' = tasks /\ seq' = seq
               IN  /\ c \notin Mutating => same
                   /\ ~HasArg => same
                   /\ (c \in {sComplete, sPending, sDelete} /\ HasArg
                       /\ Arg \in NonIntegerArgs) => same
                   /\ out'.kind \notin {"added", "marked", "deleted"} => same
        /\ (tasks' # tasks \/ seq' # seq) =>
               /\ pc = "prompt" /\ inputLeft' = inputLeft - 1
               /\ Command(PartsOf[line']) \in Mutating
               /\ out'.kind \in {"added", "marked", "deleted"} ]_vars

\* text that is no integer has been refused as the id of a status command
\* while a completed task is stored, and the store is as it was
C18_Witness ==
    /\ Command(PartsOf[line]) \in {sComplete, sPending}
    /\ Len(PartsOf[line]) > 1
    /\ PartsOf[line][2] \in NonIntegerArgs
    /\ out.kind = "id_not_number"
    /\ tasks = before
    /\ \E t \in tasks : t.status = sCompleted

\* the first word of the line typed, and what follows it, trimmed
Token(l) == SubSeq(strip(l), 1, TokenLen(strip(l)))
Remainder(l) == strip(SubSeq(strip(l), TokenLen(strip(l)) + 1, Len(strip(l))))

\* d is r with every uppercase letter replaced by its lowercase letter
IsLowered(d, r) ==
    Len(d) = Len(r) /\ \A i \in 1..Len(r) : d[i] = LowerChar(r[i])

HasUpper(r) == \E i \in 1..Len(r) : \E k \in 1..26 : r[i] = UpperLetters[k]

\* what follows the first word, for every line of the model
RemainderOf == [l \in Lines |-> Remainder(l)]

\* the lines whose first word is the command c in some case
TypedAs(c) == { l \in Lines : IsLowered(c, Token(l)) }
TypedAdd == { l \in TypedAs(sAdd) : Remainder(l) # <<>> }
TypedExit == TypedAs(sExit)
TypedCommand == UNION { TypedAs(c) : c \in Commands \ {<<>>} }

\* C19: add stores as description what follows the command on the line,
\* trimmed and in lowercase, so not what was typed when that holds an
\* uppercase letter; a command is recognised in any case.
C19_DescriptionLowercased ==
    [][ (pc = "prompt" /\ inputLeft' = inputLeft - 1) =>
            /\ line' \in TypedAdd =>
                   /\ out'.kind = "added"
                   /\ \E t \in tasks' \ tasks :
                          /\ t.id = out'.id
                          /\ IsLowered(t.description, RemainderOf[line'])
                          /\ HasUpper(RemainderOf[line']) =>
                                 t.description # RemainderOf[line']
            /\ line' \in TypedCommand => out'.kind # "unknown_command"
            /\ line' \in TypedExit => pc' = "exited" ]_vars

\* add Buy milk has stored the description buy milk
C19_Witness ==
    /\ line = sAdd \o Sp \o <<"B","u","y"," ","m","i","l","k">>
    /\ out.kind = "added"
    /\ \E t \in tasks :
           /\ t.id = out.id
           /\ t.description = <<"b","u","y"," ","m","i","l","k">>

====
